---- MODULE Spec2Model ----
(***************************************************************************)
(* A model of krux's Display (src/krux/display.py) and of the Home page    *)
(* handlers (src/krux/pages/home.py).                                      *)
(*                                                                         *)
(* Three specifications share the variables below:                         *)
(*   SpecLines    Display.to_lines, one action per loop iteration          *)
(*   SpecDisplay  the drawing primitives and their mirror transform        *)
(*   SpecHome     Home.sign_psbt, Home._load_file, Home._load_wallet       *)
(* Text is a sequence of one-character strings; positions are 0-based as   *)
(* in the Python source.                                                   *)
(***************************************************************************)
EXTENDS Integers, Sequences, FiniteSets, TLC

VARIABLES
    \* ---- Display object and native lcd surface
    portrait,               \* Display.portrait
    flipped_x_coordinates,  \* Display.flipped_x_coordinates
    lcd_width,              \* lcd.width()
    lcd_height,             \* lcd.height()
    board_type,             \* board.config["type"]
    backlight_pin,          \* "BACKLIGHT" in board.config["krux"]["pins"]
    blk_ctrl,               \* Display.blk_ctrl: None, or the PWM controller
    blk_duty,               \* the duty of that controller
    pwm_made,               \* history: PWM controllers constructed so far
    pmu_level,              \* the level last handed to the power manager (-1: none yet)
    request,                \* the last primitive called on Display, with its arguments
    lcd_call,               \* the call it issued on the native lcd surface
    \* ---- one call of Display.to_lines
    text,                   \* parameter text
    max_lines,              \* parameter max_lines (0 stands for None / 0)
    lines,                  \* local lines
    start,                  \* local start
    line_count,             \* local line_count
    emitted,                \* history: the line appended by the last iteration
    pc_lines,               \* position in to_lines
    \* ---- one invocation of a Home handler
    ctx_wallet,             \* ctx.wallet
    handler,                \* the handler that runs
    pc,                     \* its position
    trace,                  \* history: the calls it made so far, in order
    result,                 \* what it returned, or "raised"
    data,                   \* local data / wallet_data
    qr_format,              \* local qr_format
    psbt_filename,          \* local psbt_filename
    signer,                 \* local signer
    n_outputs,              \* len(outputs)
    shown,                  \* messages of outputs shown so far
    candidate,              \* local wallet of _load_wallet
    menu                    \* the menu whose loop runs: Home or one of its submenus

boardVars   == <<board_type, backlight_pin, blk_ctrl, blk_duty, pwm_made, pmu_level>>
displayVars == <<portrait, flipped_x_coordinates, lcd_width, lcd_height, boardVars>>
drawVars    == <<request, lcd_call>>
linesVars   == <<text, max_lines, lines, start, line_count, emitted, pc_lines>>
homeVars    == <<ctx_wallet, handler, pc, trace, result, data, qr_format,
                 psbt_filename, signer, n_outputs, shown, candidate, menu>>
vars        == <<displayVars, drawVars, linesVars, homeVars>>

----------------------------------------------------------------------------
(* Bounds of the model *)
MaxLen   == 5     \* longest text handed to to_lines
MaxCols  == 5     \* the narrow screens are 1..MaxCols characters wide
MaxLines == 2     \* largest explicit max_lines
MaxCoord == 3     \* largest x handed to a drawing primitive
MaxExtent == 2    \* largest width, radius and string length handed to one
MaxOutputs == 2   \* most summaries signer.outputs() returns

(* Program constants *)
DEFAULT_PADDING == 10
SMALLEST_WIDTH  == 135
FONT_WIDTH      == 8      \* board.config["krux"]["display"]["font"][0]
FONT_HEIGHT     == 14     \* board.config["krux"]["display"]["font"][1]
FLASH_MSG_TIME  == 2000
PORTRAIT        == IF board_type = "cube" THEN 2 ELSE 1
LANDSCAPE       == IF board_type = "cube" THEN 3 ELSE 2
TOTAL_LINES     == 17     \* board.config["lcd"]["width"] // FONT_HEIGHT

Min(a, b) == IF a < b THEN a ELSE b
Max(a, b) == IF a > b THEN a ELSE b

----------------------------------------------------------------------------
(* Python str operations used by to_lines *)

SPACE    == " "
NEWLINE  == "\n"
Chars    == {"a", "b", SPACE, NEWLINE}
Ellipsis == <<".", ".", ".">>

\* texts of more lines than TOTAL_LINES: line breaks only (one short of
\* the default cap, and one over it) and one unbroken word
LongTexts ==
    {[i \in 1..n |-> NEWLINE] : n \in TOTAL_LINES..(TOTAL_LINES + 1)}
        \cup {[i \in 1..(TOTAL_LINES + 1) |-> "a"]}

Texts == UNION {[1..n -> Chars] : n \in 0..MaxLen} \cup LongTexts

\* s[i] for 0 <= i < len(s)
At(s, i) == s[i + 1]

\* s[a:b] for a >= 0, b >= 0
Slice(s, a, b) ==
    IF a >= Min(b, Len(s)) THEN <<>> ELSE SubSeq(s, a + 1, Min(b, Len(s)))

\* s[:k], k of either sign (a negative k counts from the end)
SliceTo(s, k) ==
    IF k >= 0 THEN Slice(s, 0, k) ELSE Slice(s, 0, Max(0, Len(s) + k))

\* s.find(ch, from)
Find(s, ch, from) ==
    LET hits == {i \in from..(Len(s) - 1) : At(s, i) = ch}
    IN  IF hits = {} THEN -1 ELSE CHOOSE i \in hits : \A j \in hits : i <= j

\* s.rfind(ch, from, to)
RFind(s, ch, from, to) ==
    LET hits == {i \in from..(Min(to, Len(s)) - 1) : At(s, i) = ch}
    IN  IF hits = {} THEN -1 ELSE CHOOSE i \in hits : \A j \in hits : i >= j

\* s.rstrip()
RECURSIVE RStrip(_)
RStrip(s) ==
    IF s # <<>> /\ s[Len(s)] \in {SPACE, NEWLINE}
    THEN RStrip(SubSeq(s, 1, Len(s) - 1))
    ELSE s

----------------------------------------------------------------------------
(* Display geometry *)

Width  == IF portrait THEN lcd_width ELSE lcd_height
\* a mutant of Height: the native height in either orientation
HeightNative == lcd_height

Height == IF portrait THEN lcd_height ELSE lcd_width
UsableWidth == Width - 2 * DEFAULT_PADDING

\* the native sizes: narrow screens of 1..MaxCols columns, and one screen
\* wider than SMALLEST_WIDTH, where the side padding is subtracted
WideWidth == SMALLEST_WIDTH + 2 * DEFAULT_PADDING + FONT_WIDTH
Dims ==
    {<<FONT_WIDTH * k, FONT_WIDTH * (MaxCols + 1 - k)>> : k \in 1..MaxCols}
    \cup {<<WideWidth, FONT_WIDTH>>}

InitGeometry ==
    /\ portrait \in BOOLEAN
    /\ flipped_x_coordinates \in BOOLEAN
    /\ \E d \in Dims : lcd_width = d[1] /\ lcd_height = d[2]

NoDraw == [op |-> "none"]

\* a board without a backlight pin, the controller not created
BoardIdle ==
    /\ board_type = "m5stickv" /\ backlight_pin = FALSE
    /\ blk_ctrl = "None" /\ blk_duty = 100
    /\ pwm_made = 0 /\ pmu_level = -1

\* no Home handler runs; the active wallet is the one set up at login
HomeIdle ==
    /\ ctx_wallet = [id |-> 0, loaded |-> FALSE, multisig |-> FALSE]
    /\ handler = "none" /\ pc = "idle" /\ trace = <<>> /\ result = "none"
    /\ data = "unbound" /\ qr_format = "unbound" /\ psbt_filename = "unbound"
    /\ signer = "unbound" /\ n_outputs = 0 /\ shown = 0
    /\ candidate = "unbound"
    /\ menu = "Home"

----------------------------------------------------------------------------
(* Display.to_lines *)

\* columns, as computed at the top of to_lines
Columns ==
    IF Width > SMALLEST_WIDTH
    THEN UsableWidth \div FONT_WIDTH
    ELSE Width \div FONT_WIDTH

\* next_break of the current iteration
NextBreak ==
    LET line_break == Find(text, NEWLINE, start)
    IN  IF line_break = -1 THEN Len(text) ELSE Min(line_break, Len(text))

\* end of the line when the segment does not fit: back to the previous
\* space when the cut is inside a word, a forced cut when there is none
WrapEnd(s, from, columns) ==
    LET end  == from + columns
        back == IF At(s, end) # SPACE /\ At(s, end) # NEWLINE
                THEN RFind(s, SPACE, from, end)
                ELSE end
    IN  IF back = -1 \/ back < from THEN from + columns ELSE back

\* a mutant of JumpSpace: the character at the cut is always skipped
JumpSpaceAlways(s, end) == 1

\* jump_space: the space at the cut is skipped, a cut inside a word is not
JumpSpace(s, end) == IF At(s, end) = SPACE THEN 1 ELSE 0

\* a mutant of Ellipsize: the marker is appended to the whole line
EllipsizeUncut(line, columns) == line \o Ellipsis

\* a mutant of Ellipsize: one character too many is kept
EllipsizeLong(line, columns) == SliceTo(line, columns - 2) \o Ellipsis

\* lines[-1][: columns - 3] + "..."
Ellipsize(line, columns) == SliceTo(line, columns - 3) \o Ellipsis

Last(seq) == seq[Len(seq)]

InitLines ==
    /\ InitGeometry
    /\ BoardIdle
    /\ flipped_x_coordinates = FALSE
    /\ request = NoDraw /\ lcd_call = NoDraw
    /\ text \in Texts
    /\ max_lines \in 0..MaxLines
    /\ lines = <<>> /\ start = 0 /\ line_count = 0 /\ emitted = <<>>
    /\ pc_lines = "entry"
    /\ HomeIdle

\* a mutant of to_lines_quick: the single line is stripped like the others
to_lines_quick_stripped ==
    /\ pc_lines = "entry"
    /\ Len(text) <= Columns /\ Find(text, NEWLINE, 0) = -1
    /\ lines' = <<RStrip(text)>>
    /\ pc_lines' = "done"
    /\ UNCHANGED <<text, max_lines, start, line_count, emitted, displayVars, drawVars, homeVars>>

\* the quick return when the content fits in one line
to_lines_quick ==
    /\ pc_lines = "entry"
    /\ Len(text) <= Columns /\ Find(text, NEWLINE, 0) = -1
    /\ lines' = <<text>>
    /\ pc_lines' = "done"
    /\ UNCHANGED <<text, max_lines, start, line_count, emitted, displayVars, drawVars, homeVars>>

\* otherwise max_lines defaults to TOTAL_LINES and the loop is entered
to_lines_begin ==
    /\ pc_lines = "entry"
    /\ ~(Len(text) <= Columns /\ Find(text, NEWLINE, 0) = -1)
    /\ max_lines' = IF max_lines = 0 THEN TOTAL_LINES ELSE max_lines
    /\ pc_lines' = "loop"
    /\ UNCHANGED <<text, lines, start, line_count, emitted, displayVars, drawVars, homeVars>>

\* a mutant of LoopCondition: one iteration too many
LoopConditionInclusive == start < Len(text) /\ line_count <= max_lines

LoopCondition == start < Len(text) /\ line_count < max_lines

\* an iteration whose segment fits on one line
to_lines_fit ==
    /\ pc_lines = "loop" /\ LoopCondition
    /\ start + Columns >= NextBreak
    /\ LET line == RStrip(Slice(text, start, NextBreak))
       IN  lines' = Append(lines, line) /\ emitted' = line
    /\ start' = NextBreak + 1
    /\ line_count' = line_count + 1
    /\ UNCHANGED <<text, max_lines, pc_lines, displayVars, drawVars, homeVars>>

\* an iteration that has to cut the segment
to_lines_wrap ==
    /\ pc_lines = "loop" /\ LoopCondition
    /\ start + Columns < NextBreak
    /\ LET end  == WrapEnd(text, start, Columns)
           line == RStrip(Slice(text, start, end))
       IN  /\ lines' = Append(lines, line) /\ emitted' = line
           /\ start' = end + JumpSpace(text, end)
    /\ line_count' = line_count + 1
    /\ UNCHANGED <<text, max_lines, pc_lines, displayVars, drawVars, homeVars>>

\* after the loop: the last line gets the ellipsis if text is left over
to_lines_return ==
    /\ pc_lines = "loop" /\ ~LoopCondition
    /\ lines' = IF line_count = max_lines /\ start < Len(text)
                THEN [lines EXCEPT ![Len(lines)] = Ellipsize(Last(lines), Columns)]
                ELSE lines
    /\ pc_lines' = "done"
    /\ UNCHANGED <<text, max_lines, start, line_count, emitted, displayVars, drawVars, homeVars>>

NextLines ==
    \/ to_lines_quick
    \/ to_lines_begin
    \/ to_lines_fit
    \/ to_lines_wrap
    \/ to_lines_return

SpecLines == InitLines /\ [][NextLines]_vars

\* the loop stopped on the line cap with text left over
Truncated ==
    /\ pc_lines = "done"
    /\ line_count > 0 /\ line_count = max_lines /\ start < Len(text)

----------------------------------------------------------------------------
(* The drawing primitives: each records the call made on Display (request) *)
(* and the call it issues on the native surface (lcd_call).  Calls do not  *)
(* overlap: one is made when the previous one has returned.                *)

Xs       == 0..MaxCoord
Ys       == 0..1
Extents  == 0..MaxExtent
Heights  == 1..2
Colors   == {"fg_color", "bg_color"}
Strings  == UNION {[1..n -> {"a"}] : n \in 0..MaxExtent}

\* x handed to lcd.draw_outline
OutlineX(flipped, w, x, width) ==
    IF flipped THEN (w - x - 1) - width ELSE x

\* a mutant of FillRectangleX: the outline's edge correction is applied
FillRectangleXEdge(flipped, w, x, width) ==
    IF flipped THEN (w - x - 1) - width ELSE x

\* x handed to lcd.fill_rectangle
FillRectangleX(flipped, w, x, width) ==
    IF flipped THEN (w - x) - width ELSE x

\* x handed to lcd.draw_circle
CircleX(flipped, w, x) ==
    IF flipped THEN w - x ELSE x

\* a mutant of StringX: the length of the string is not subtracted
StringXNoLength(flipped, w, x, str) ==
    IF flipped THEN w - x ELSE x

\* x handed to lcd.draw_string
StringX(flipped, w, x, str) ==
    IF flipped THEN (w - x) - Len(str) * FONT_WIDTH ELSE x

\* the call fill_rectangle issues on the native surface
NativeFillRectangle(flipped, w, x, y, width, height, color, radius) ==
    [op |-> "lcd.fill_rectangle", x |-> FillRectangleX(flipped, w, x, width),
     y |-> y, width |-> width, height |-> height, color |-> color,
     radius |-> radius]

\* the boards: the mirroring is a setting of the amigo only
Boards == {"amigo", "cube", "m5stickv"}

InitDisplay ==
    /\ InitGeometry
    /\ portrait = TRUE
    /\ board_type \in Boards
    /\ flipped_x_coordinates => board_type = "amigo"
    /\ backlight_pin \in BOOLEAN
    /\ blk_ctrl = "None" /\ blk_duty = 100
    /\ pwm_made = 0 /\ pmu_level = -1
    /\ request = NoDraw /\ lcd_call = NoDraw
    /\ text = <<>> /\ max_lines = 0
    /\ lines = <<>> /\ start = 0 /\ line_count = 0 /\ emitted = <<>>
    /\ pc_lines = "idle"
    /\ HomeIdle

to_landscape ==
    /\ request = NoDraw
    /\ request' = [op |-> "to_landscape"]
    /\ lcd_call' = [op |-> "lcd.rotation", dir |-> LANDSCAPE]
    /\ portrait' = FALSE
    /\ UNCHANGED <<flipped_x_coordinates, lcd_width, lcd_height, boardVars,
                   linesVars, homeVars>>

to_portrait ==
    /\ request = NoDraw
    /\ request' = [op |-> "to_portrait"]
    /\ lcd_call' = [op |-> "lcd.rotation", dir |-> PORTRAIT]
    /\ portrait' = TRUE
    /\ UNCHANGED <<flipped_x_coordinates, lcd_width, lcd_height, boardVars,
                   linesVars, homeVars>>

outline ==
    /\ request = NoDraw
    /\ \E x \in Xs, y \in Ys, width \in Extents, height \in Heights, color \in Colors :
        /\ request' = [op |-> "outline", x |-> x, y |-> y, width |-> width,
                       height |-> height, color |-> color]
        /\ lcd_call' = [op |-> "lcd.draw_outline",
                        x |-> OutlineX(flipped_x_coordinates, Width, x, width),
                        y |-> y, width |-> width, height |-> height,
                        color |-> color]
        /\ UNCHANGED <<displayVars, linesVars, homeVars>>

fill_rectangle ==
    /\ request = NoDraw
    /\ \E x \in Xs, y \in Ys, width \in Extents, height \in Heights,
       color \in Colors, radius \in 0..1 :
        /\ request' = [op |-> "fill_rectangle", x |-> x, y |-> y,
                       width |-> width, height |-> height, color |-> color,
                       radius |-> radius]
        /\ lcd_call' = NativeFillRectangle(flipped_x_coordinates, Width, x, y,
                                           width, height, color, radius)
        /\ UNCHANGED <<displayVars, linesVars, homeVars>>

draw_circle ==
    /\ request = NoDraw
    /\ \E x \in Xs, y \in Ys, radius \in Extents, quadrant \in 0..1, color \in Colors :
        /\ request' = [op |-> "draw_circle", x |-> x, y |-> y, radius |-> radius,
                       quadrant |-> quadrant, color |-> color]
        /\ lcd_call' = [op |-> "lcd.draw_circle",
                        x |-> CircleX(flipped_x_coordinates, Width, x),
                        y |-> y, radius |-> radius, quadrant |-> quadrant,
                        color |-> color]
        /\ UNCHANGED <<displayVars, linesVars, homeVars>>

draw_string ==
    /\ request = NoDraw
    /\ \E x \in Xs, y \in Ys, str \in Strings, color \in Colors, bg_color \in {"bg_color"} :
        /\ request' = [op |-> "draw_string", x |-> x, y |-> y, text |-> str,
                       color |-> color, bg_color |-> bg_color]
        /\ lcd_call' = [op |-> "lcd.draw_string",
                        x |-> StringX(flipped_x_coordinates, Width, x, str),
                        y |-> y, text |-> str, color |-> color,
                        bg_color |-> bg_color]
        /\ UNCHANGED <<displayVars, linesVars, homeVars>>

\* draw_line: the x end taken by the mirrored branch (x += 1 below the width)
LineEnd(w, x) == IF x < w THEN x + 1 ELSE x

\* draw_line: the native call, start and end as the code computes them
NativeLine(flipped, w, x_0, y_0, x_1, y_1, color) ==
    IF flipped
    THEN [op |-> "lcd.draw_line", x_start |-> w - LineEnd(w, x_1), y_0 |-> y_0,
          x_end |-> w - LineEnd(w, x_0), y_1 |-> y_1, color |-> color]
    ELSE [op |-> "lcd.draw_line", x_start |-> x_0, y_0 |-> y_0,
          x_end |-> x_1, y_1 |-> y_1, color |-> color]

\* the x coordinates a line is asked for: the drawing ones and the right edge
LineXs == Xs \cup {Width}

draw_line ==
    /\ request = NoDraw
    /\ \E x_0 \in LineXs, x_1 \in LineXs, y_0 \in Ys, y_1 \in Ys, color \in Colors :
        /\ request' = [op |-> "draw_line", x_0 |-> x_0, y_0 |-> y_0,
                       x_1 |-> x_1, y_1 |-> y_1, color |-> color]
        /\ lcd_call' = NativeLine(flipped_x_coordinates, Width, x_0, y_0,
                                  x_1, y_1, color)
        /\ UNCHANGED <<displayVars, linesVars, homeVars>>

\* the brightness levels of the settings
Levels == 0..5

\* pwm_value = 5 - int(brightness); pwm_value *= 20
PwmValue(brightness) == (5 - brightness) * 20

\* a mutant of gpio_backlight_ctrl: a controller is constructed on every call
gpio_backlight_ctrl_renewed ==
    /\ request = NoDraw
    /\ backlight_pin
    /\ \E brightness \in Levels :
        /\ request' = [op |-> "gpio_backlight_ctrl", brightness |-> brightness]
        /\ blk_ctrl' = "PWM"
        /\ pwm_made' = pwm_made + 1
        /\ IF board_type = "cube"
           THEN /\ lcd_call' = [op |-> "PWM.duty", duty |-> (5 - brightness) * 20,
                                created |-> TRUE, before |-> blk_duty]
                /\ blk_duty' = (5 - brightness) * 20
           ELSE /\ lcd_call' = [op |-> "UnboundLocalError", name |-> "pwm_value",
                                created |-> TRUE, before |-> blk_duty]
                /\ blk_duty' = 100
    /\ UNCHANGED <<portrait, flipped_x_coordinates, lcd_width, lcd_height,
                   board_type, backlight_pin, pmu_level, linesVars, homeVars>>

\* the controller is created on the first call, with duty 100; the duty is
\* computed for the cube only, and on any other board the read of
\* pwm_value raises UnboundLocalError; the native call records whether the
\* controller was constructed by it and the duty it found
gpio_backlight_ctrl ==
    /\ request = NoDraw
    /\ backlight_pin
    /\ \E brightness \in Levels :
        /\ request' = [op |-> "gpio_backlight_ctrl", brightness |-> brightness]
        /\ blk_ctrl' = "PWM"
        /\ pwm_made' = IF blk_ctrl = "None" THEN pwm_made + 1 ELSE pwm_made
        /\ IF board_type = "cube"
           THEN /\ lcd_call' = [op |-> "PWM.duty", duty |-> PwmValue(brightness),
                                created |-> blk_ctrl = "None", before |-> blk_duty]
                /\ blk_duty' = PwmValue(brightness)
           ELSE /\ lcd_call' = [op |-> "UnboundLocalError", name |-> "pwm_value",
                                created |-> blk_ctrl = "None", before |-> blk_duty]
                /\ blk_duty' = IF blk_ctrl = "None" THEN 100 ELSE blk_duty
    /\ UNCHANGED <<portrait, flipped_x_coordinates, lcd_width, lcd_height,
                   board_type, backlight_pin, pmu_level, linesVars, homeVars>>

\* a mutant of TranslatedLevel: the level is passed as it is
TranslatedLevelPlain(level) == level

\* translated_level of set_pmu_backlight
TranslatedLevel(level) ==
    IF level = 4 THEN 5
    ELSE IF level = 5 THEN 8
    ELSE level

set_pmu_backlight ==
    /\ request = NoDraw
    /\ \E level \in Levels :
        /\ request' = [op |-> "set_pmu_backlight", level |-> level]
        /\ lcd_call' = [op |-> "power_manager.set_screen_brightness",
                        level |-> TranslatedLevel(level), before |-> pmu_level]
        /\ pmu_level' = TranslatedLevel(level)
    /\ UNCHANGED <<portrait, flipped_x_coordinates, lcd_width, lcd_height,
                   board_type, backlight_pin, blk_ctrl, blk_duty, pwm_made,
                   linesVars, homeVars>>

\* the call on Display returns; the next one may be made
display_return ==
    /\ request # NoDraw
    /\ request' = NoDraw /\ lcd_call' = NoDraw
    /\ UNCHANGED <<displayVars, linesVars, homeVars>>

NextDisplay ==
    \/ display_return
    \/ to_landscape
    \/ to_portrait
    \/ outline
    \/ fill_rectangle
    \/ draw_circle
    \/ draw_string
    \/ draw_line
    \/ gpio_backlight_ctrl
    \/ set_pmu_backlight

SpecDisplay == InitDisplay /\ [][NextDisplay]_vars

----------------------------------------------------------------------------
(* Display.qr_data_width *)

\* a mutant of QrDataWidth: a width of 200 is already taken as a wide one
QrDataWidthFrom200(w) ==
    IF w > 300 THEN w \div 6
    ELSE IF w >= 200 THEN w \div 5
    ELSE w \div 4

\* the value returned for the width w
QrDataWidth(w) ==
    IF w > 300 THEN w \div 6
    ELSE IF w > 200 THEN w \div 5
    ELSE w \div 4

\* native extents: those of the boards, and the ones around the two
\* thresholds
QrExtents == {135, 240, 320, 480} \cup (199..201) \cup (299..301)

InitQr ==
    /\ portrait = TRUE /\ flipped_x_coordinates = FALSE
    /\ lcd_width \in QrExtents /\ lcd_height \in QrExtents
    /\ BoardIdle
    /\ request = NoDraw /\ lcd_call = NoDraw
    /\ text = <<>> /\ max_lines = 0
    /\ lines = <<>> /\ start = 0 /\ line_count = 0 /\ emitted = <<>>
    /\ pc_lines = "idle"
    /\ HomeIdle

qr_data_width ==
    /\ request = NoDraw
    /\ request' = [op |-> "qr_data_width"]
    /\ lcd_call' = [op |-> "return", value |-> QrDataWidth(Width)]
    /\ UNCHANGED <<displayVars, linesVars, homeVars>>

NextQr ==
    \/ display_return
    \/ to_landscape
    \/ to_portrait
    \/ qr_data_width

SpecQr == InitQr /\ [][NextQr]_vars

\* the reflection the specification gives for the mirrored mode
Reflect(x, extent) == Width - x - extent

----------------------------------------------------------------------------
(* Home handlers.  Every call on a collaborator is an event of trace; a    *)
(* collaborator outside this core (capture, storage, signer, wallet, QR    *)
(* display, printer) may raise instead of returning.                       *)

MENU_CONTINUE == "MENU_CONTINUE"
MENU_EXIT     == "MENU_EXIT"
FORMAT_NONE   == "FORMAT_NONE"
FORMAT_PMOFN  == "FORMAT_PMOFN"
FORMAT_UR     == "FORMAT_UR"
Formats       == {FORMAT_NONE, FORMAT_PMOFN, FORMAT_UR}

Ev(op, arg, k) == [op |-> op, arg |-> arg, k |-> k]
Bool(b) == IF b THEN "True" ELSE "False"

\* the failure notice of the running handler
FailureNotice ==
    IF handler = "sign_psbt" THEN "Failed to load PSBT"
    ELSE "Failed to load output descriptor"

localVars == <<data, qr_format, psbt_filename, signer, n_outputs, shown, candidate>>

\* the handler goes on at position to, having made the calls evs
Goto(to, evs) ==
    /\ trace' = trace \o evs
    /\ pc' = to
    /\ UNCHANGED <<handler, result>>

\* return MENU_CONTINUE
Return(evs) ==
    /\ trace' = trace \o evs
    /\ pc' = "done" /\ result' = MENU_CONTINUE
    /\ UNCHANGED handler

\* an exception leaves the handler
Propagate(evs) ==
    /\ trace' = trace \o evs
    /\ pc' = "done" /\ result' = "raised"
    /\ UNCHANGED handler

InitHome ==
    /\ portrait = TRUE /\ flipped_x_coordinates = FALSE
    /\ BoardIdle
    /\ lcd_width = WideWidth /\ lcd_height = WideWidth
    /\ request = NoDraw /\ lcd_call = NoDraw
    /\ text = <<>> /\ max_lines = 0
    /\ lines = <<>> /\ start = 0 /\ line_count = 0 /\ emitted = <<>>
    /\ pc_lines = "idle"
    /\ ctx_wallet \in [id : {0}, loaded : BOOLEAN, multisig : BOOLEAN]
    /\ handler = "none" /\ pc = "idle" /\ trace = <<>> /\ result = "none"
    /\ data = "unbound" /\ qr_format = "unbound" /\ psbt_filename = "unbound"
    /\ signer = "unbound" /\ n_outputs = 0 /\ shown = 0
    /\ candidate = "unbound"
    /\ menu = "Home"

frame == <<displayVars, drawVars, linesVars, menu>>

(* ---- Home.sign_psbt: the validation gate *)

\* a mutant of sign_psbt_enter: the warning and its prompt are skipped
sign_psbt_enter_unwarned ==
    /\ pc = "idle" /\ menu = "Sign"
    /\ handler' = "sign_psbt"
    /\ psbt_filename' = ""
    /\ trace' = trace /\ pc' = "capture" /\ UNCHANGED result
    /\ UNCHANGED <<ctx_wallet, data, qr_format, signer, n_outputs, shown,
                   candidate, frame>>

sign_psbt_enter ==
    /\ pc = "idle" /\ menu = "Sign"
    /\ handler' = "sign_psbt"
    /\ psbt_filename' = ""
    /\ IF ~ctx_wallet.loaded /\ ctx_wallet.multisig
       THEN /\ trace' = trace \o <<Ev("draw_centered_text", "Warning", 0)>>
            /\ pc' = "proceed"
       ELSE /\ trace' = trace
            /\ pc' = "capture"
    /\ UNCHANGED result
    /\ UNCHANGED <<ctx_wallet, data, qr_format, signer, n_outputs, shown,
                   candidate, frame>>

sign_psbt_proceed ==
    /\ handler = "sign_psbt" /\ pc = "proceed"
    /\ \E answer \in BOOLEAN :
        IF answer
        THEN Goto("capture", <<Ev("prompt", "Proceed?", 1)>>)
        ELSE Return(<<Ev("prompt", "Proceed?", 0)>>)
    /\ UNCHANGED <<ctx_wallet, localVars, frame>>

(* ---- acquisition, shared by sign_psbt and _load_wallet *)

\* a mutant of capture_qr_code: the storage is asked even when the capture
\* returned data
capture_qr_code_then_file ==
    /\ pc = "capture"
    /\ \/ \E fmt \in Formats :
            /\ data' = "qr_data" /\ qr_format' = fmt
            /\ Goto("has_sd_card", <<Ev("capture_qr_code", fmt, 1)>>)
       \/ /\ data' = "None" /\ qr_format' = FORMAT_NONE
          /\ Goto("has_sd_card", <<Ev("capture_qr_code", "None", 0)>>)
       \/ /\ UNCHANGED <<data, qr_format>>
          /\ Propagate(<<Ev("capture_qr_code", "raise", 0)>>)
    /\ UNCHANGED <<ctx_wallet, psbt_filename, signer, n_outputs, shown,
                   candidate, frame>>

\* data, qr_format = self.capture_qr_code(); a capture without data sets
\* qr_format = FORMAT_NONE
capture_qr_code ==
    /\ pc = "capture"
    /\ \/ \E fmt \in Formats :
            /\ data' = "qr_data" /\ qr_format' = fmt
            /\ Goto("acquired", <<Ev("capture_qr_code", fmt, 1)>>)
       \/ /\ data' = "None" /\ qr_format' = FORMAT_NONE
          /\ Goto("has_sd_card", <<Ev("capture_qr_code", "None", 0)>>)
       \/ /\ UNCHANGED <<data, qr_format>>
          /\ Propagate(<<Ev("capture_qr_code", "raise", 0)>>)
    /\ UNCHANGED <<ctx_wallet, psbt_filename, signer, n_outputs, shown,
                   candidate, frame>>

\* _load_file returned ("", None), or raised an OSError that the caller
\* passes over: both sources failed, the notice is flashed
NoData(evs) ==
    /\ Return(evs \o <<Ev("flash_text", FailureNotice, 0)>>)
    /\ UNCHANGED <<ctx_wallet, localVars, frame>>

load_file_has_sd_card ==
    /\ pc = "has_sd_card"
    /\ \/ /\ Goto("load_from_sd", <<Ev("has_sd_card", "True", 1)>>)
          /\ UNCHANGED <<ctx_wallet, localVars, frame>>
       \/ NoData(<<Ev("has_sd_card", "False", 0)>>)

load_file_prompt_sd ==
    /\ pc = "load_from_sd"
    /\ \/ /\ Goto("select_file", <<Ev("prompt", "Load from SD card?", 1)>>)
          /\ UNCHANGED <<ctx_wallet, localVars, frame>>
       \/ NoData(<<Ev("prompt", "Load from SD card?", 0)>>)

load_file_select ==
    /\ pc = "select_file"
    /\ \/ /\ Goto("load_prompt", <<Ev("select_file", "name", 1),
                                  Ev("display_file", "name", 1)>>)
          /\ UNCHANGED <<ctx_wallet, localVars, frame>>
       \/ NoData(<<Ev("select_file", "", 0)>>)
       \/ /\ Propagate(<<Ev("select_file", "raise", 0)>>)
          /\ UNCHANGED <<ctx_wallet, localVars, frame>>

\* a mutant of load_file_prompt_load: the file is read whatever the answer
load_file_prompt_load_unasked ==
    /\ pc = "load_prompt"
    /\ \E answer \in 0..1 : Goto("read_binary", <<Ev("prompt", "Load?", answer)>>)
    /\ UNCHANGED <<ctx_wallet, localVars, frame>>

\* if self.prompt(t("Load?"), ...)
load_file_prompt_load ==
    /\ pc = "load_prompt"
    /\ \/ /\ Goto("read_binary", <<Ev("prompt", "Load?", 1)>>)
          /\ UNCHANGED <<ctx_wallet, localVars, frame>>
       \/ NoData(<<Ev("prompt", "Load?", 0)>>)

\* a mutant of load_file_read: the OSError of the read is not passed over
load_file_read_uncaught ==
    /\ pc = "read_binary"
    /\ Propagate(<<Ev("read_binary", "OSError", 0)>>)
    /\ UNCHANGED <<ctx_wallet, localVars, frame>>

\* return filename, sd.read_binary(filename)
load_file_read ==
    /\ pc = "read_binary"
    /\ \/ /\ data' = "file_data"
          /\ psbt_filename' = IF handler = "sign_psbt" THEN "name" ELSE psbt_filename
          /\ Goto("acquired", <<Ev("read_binary", "name", 1)>>)
          /\ UNCHANGED <<ctx_wallet, qr_format, signer, n_outputs, shown,
                         candidate, frame>>
       \/ NoData(<<Ev("read_binary", "OSError", 0)>>)

(* ---- Home.sign_psbt: sign and export *)

\* signer = PSBTSigner(self.ctx.wallet, data, qr_format)
sign_psbt_signer ==
    /\ handler = "sign_psbt" /\ pc = "acquired"
    /\ LET fmt  == IF qr_format = FORMAT_NONE THEN FORMAT_PMOFN ELSE qr_format
           load == <<Ev("clear", "", 0), Ev("draw_centered_text", "Loading..", 0)>>
       IN  /\ qr_format' = fmt
           /\ \/ /\ signer' = "live"
                 /\ Goto("outputs", load \o <<Ev("PSBTSigner(data)", data, 1),
                                               Ev("PSBTSigner", fmt, 1)>>)
              \/ /\ signer' = signer
                 /\ Propagate(load \o <<Ev("PSBTSigner", "raise", 0)>>)
    /\ UNCHANGED <<ctx_wallet, data, psbt_filename, n_outputs, shown,
                   candidate, frame>>

\* outputs = signer.outputs()
sign_psbt_outputs ==
    /\ handler = "sign_psbt" /\ pc = "outputs"
    /\ \/ \E n \in 0..MaxOutputs :
            /\ n_outputs' = n
            /\ Goto("messages", <<Ev("signer.outputs", "ok", n)>>)
       \/ /\ n_outputs' = n_outputs
          /\ Propagate(<<Ev("signer.outputs", "raise", 0)>>)
    /\ UNCHANGED <<ctx_wallet, data, qr_format, psbt_filename, signer, shown,
                   candidate, frame>>

\* one iteration of: for message in outputs
sign_psbt_message ==
    /\ handler = "sign_psbt" /\ pc = "messages"
    /\ shown < n_outputs
    /\ shown' = shown + 1
    /\ Goto("messages", <<Ev("clear", "", 0),
                          Ev("draw_centered_text", "message", shown + 1),
                          Ev("wait_for_button", "message", shown + 1)>>)
    /\ UNCHANGED <<ctx_wallet, data, qr_format, psbt_filename, signer,
                   n_outputs, candidate, frame>>

\* del data, outputs; gc.collect()
sign_psbt_scrub_data ==
    /\ handler = "sign_psbt" /\ pc = "messages"
    /\ shown = n_outputs
    /\ data' = "deleted"
    /\ Goto("sign_prompt", <<Ev("del", "data, outputs", 0), Ev("gc.collect", "", 0)>>)
    /\ UNCHANGED <<ctx_wallet, qr_format, psbt_filename, signer, n_outputs,
                   shown, candidate, frame>>

\* a mutant of sign_psbt_prompt: the answer to "Sign?" is not looked at
sign_psbt_prompt_ignored ==
    /\ handler = "sign_psbt" /\ pc = "sign_prompt"
    /\ \E answer \in BOOLEAN :
        Goto("sign", <<Ev("prompt", "Sign?", IF answer THEN 1 ELSE 0)>>)
    /\ UNCHANGED <<ctx_wallet, localVars, frame>>

\* if self.prompt(t("Sign?"), ...)
sign_psbt_prompt ==
    /\ handler = "sign_psbt" /\ pc = "sign_prompt"
    /\ \E answer \in BOOLEAN :
        IF answer
        THEN Goto("sign", <<Ev("prompt", "Sign?", 1)>>)
        ELSE Return(<<Ev("prompt", "Sign?", 0)>>)
    /\ UNCHANGED <<ctx_wallet, localVars, frame>>

\* signer.sign()
sign_psbt_sign ==
    /\ handler = "sign_psbt" /\ pc = "sign"
    /\ \/ Goto("psbt_qr", <<Ev("signer.sign", "ok", 1)>>)
       \/ Propagate(<<Ev("signer.sign", "raise", 0)>>)
    /\ UNCHANGED <<ctx_wallet, localVars, frame>>

\* qr_signed_psbt, qr_format = signer.psbt_qr()
sign_psbt_psbt_qr ==
    /\ handler = "sign_psbt" /\ pc = "psbt_qr"
    /\ \/ \E fmt \in Formats \ {FORMAT_NONE} :
            /\ qr_format' = fmt
            /\ Goto("serialize", <<Ev("signer.psbt_qr", "ok", 1)>>)
       \/ /\ qr_format' = qr_format
          /\ Propagate(<<Ev("signer.psbt_qr", "raise", 0)>>)
    /\ UNCHANGED <<ctx_wallet, data, psbt_filename, signer, n_outputs, shown,
                   candidate, frame>>

\* serialized_signed_psbt = signer.psbt.serialize()
sign_psbt_serialize ==
    /\ handler = "sign_psbt" /\ pc = "serialize"
    /\ \/ Goto("scrub_signer", <<Ev("signer.psbt.serialize", "ok", 1)>>)
       \/ Propagate(<<Ev("signer.psbt.serialize", "raise", 0)>>)
    /\ UNCHANGED <<ctx_wallet, localVars, frame>>

\* a mutant of sign_psbt_scrub_signer: the signer is kept while exporting
sign_psbt_scrub_signer_skipped ==
    /\ handler = "sign_psbt" /\ pc = "scrub_signer"
    /\ Goto("display_qr_codes", <<>>)
    /\ UNCHANGED <<ctx_wallet, localVars, frame>>

\* del signer; gc.collect()
sign_psbt_scrub_signer ==
    /\ handler = "sign_psbt" /\ pc = "scrub_signer"
    /\ signer' = "deleted"
    /\ Goto("display_qr_codes", <<Ev("del", "signer", 0), Ev("gc.collect", "", 0)>>)
    /\ UNCHANGED <<ctx_wallet, data, qr_format, psbt_filename, n_outputs,
                   shown, candidate, frame>>

\* the except clause around the two QR exports
ExportError == <<Ev("log.exception", "sign_psbt", 0), Ev("clear", "", 0),
                 Ev("draw_centered_text", "Error", 0),
                 Ev("wait_for_button", "Error", 0)>>

\* del qr_signed_psbt; gc.collect()
ScrubQr == <<Ev("del", "qr_signed_psbt", 0), Ev("gc.collect", "", 0)>>

\* self.display_qr_codes(qr_signed_psbt, qr_format), inside the try
sign_psbt_display_qr_codes ==
    /\ handler = "sign_psbt" /\ pc = "display_qr_codes"
    /\ \/ Goto("print_standard_qr", <<Ev("display_qr_codes", "ok", 1)>>)
       \/ Goto("has_sd_card_save",
               <<Ev("display_qr_codes", "raise", 0)>> \o ExportError \o ScrubQr)
    /\ UNCHANGED <<ctx_wallet, localVars, frame>>

\* self.print_standard_qr(qr_signed_psbt, qr_format, title, width=45),
\* inside the same try
sign_psbt_print_standard_qr ==
    /\ handler = "sign_psbt" /\ pc = "print_standard_qr"
    /\ \/ Goto("has_sd_card_save",
               <<Ev("print_qr_prompt", "False", 0)>> \o ScrubQr)
       \/ Goto("has_sd_card_save",
               <<Ev("print_qr_prompt", "True", 1), Ev("print_qr", "ok", 1)>>
               \o ScrubQr)
       \/ Goto("has_sd_card_save",
               <<Ev("print_qr_prompt", "True", 1), Ev("print_qr", "raise", 0)>>
               \o ExportError \o ScrubQr)
    /\ UNCHANGED <<ctx_wallet, localVars, frame>>

\* if self.has_sd_card(): save_page.save_file(...); return MENU_CONTINUE
sign_psbt_save_file ==
    /\ handler = "sign_psbt" /\ pc = "has_sd_card_save"
    /\ \/ Return(<<Ev("has_sd_card", "False", 0)>>)
       \/ Return(<<Ev("has_sd_card", "True", 1), Ev("save_file", "ok", 1)>>)
       \/ Propagate(<<Ev("has_sd_card", "True", 1), Ev("save_file", "raise", 0)>>)
    /\ UNCHANGED <<ctx_wallet, localVars, frame>>

(* ---- Home._load_wallet *)

\* Home.wallet without a loaded descriptor: the notice and "Load one?"
wallet_enter ==
    /\ pc = "idle" /\ menu = "Home" /\ ~ctx_wallet.loaded
    /\ handler' = "wallet"
    /\ trace' = trace \o <<Ev("clear", "", 0),
                           Ev("draw_centered_text", "Wallet output descriptor not found.", 0)>>
    /\ pc' = "load_one" /\ UNCHANGED result
    /\ UNCHANGED <<ctx_wallet, localVars, frame>>

\* if self.prompt(t("Load one?"), ...): return self._load_wallet()
wallet_load_one ==
    /\ handler = "wallet" /\ pc = "load_one"
    /\ \/ Goto("capture", <<Ev("prompt", "Load one?", 1)>>)
       \/ Return(<<Ev("prompt", "Load one?", 0)>>)
    /\ UNCHANGED <<ctx_wallet, localVars, frame>>

\* Home.wallet with a loaded descriptor: show it, offer to print it and
\* to save it
wallet_show ==
    /\ pc = "idle" /\ menu = "Home" /\ ctx_wallet.loaded
    /\ handler' = "wallet"
    /\ UNCHANGED <<ctx_wallet, localVars, frame>>
    /\ \/ /\ trace' = trace \o <<Ev("clear", "", 0), Ev("display_wallet", "ok", 1),
                                 Ev("wallet_qr", "ok", 1)>>
          /\ pc' = "wallet_print" /\ UNCHANGED result
       \/ /\ trace' = trace \o <<Ev("clear", "", 0), Ev("display_wallet", "raise", 0)>>
          /\ pc' = "done" /\ result' = "raised"

wallet_print ==
    /\ handler = "wallet" /\ pc = "wallet_print"
    /\ \/ Goto("wallet_save", <<Ev("print_qr_prompt", "False", 0)>>)
       \/ Goto("wallet_save", <<Ev("print_qr_prompt", "True", 1), Ev("print_qr", "ok", 1)>>)
       \/ Propagate(<<Ev("print_qr_prompt", "True", 1), Ev("print_qr", "raise", 0)>>)
    /\ UNCHANGED <<ctx_wallet, localVars, frame>>

wallet_save ==
    /\ handler = "wallet" /\ pc = "wallet_save"
    /\ \/ Return(<<Ev("has_sd_card", "False", 0)>>)
       \/ Return(<<Ev("has_sd_card", "True", 1), Ev("save_file", "ok", 1)>>)
       \/ Propagate(<<Ev("has_sd_card", "True", 1), Ev("save_file", "raise", 0)>>)
    /\ UNCHANGED <<ctx_wallet, localVars, frame>>

\* the except clause of _load_wallet, and the return after it
InvalidWallet == <<Ev("log.exception", "_load_wallet", 0), Ev("clear", "", 0),
                   Ev("draw_centered_text", "Invalid wallet", 0),
                   Ev("wait_for_button", "Invalid wallet", 0)>>

\* wallet = Wallet(self.ctx.wallet.key); wallet.load(wallet_data, qr_format)
load_wallet_load ==
    /\ handler = "wallet" /\ pc = "acquired"
    /\ \/ /\ candidate' = "loaded"
          /\ Goto("display_wallet", <<Ev("Wallet", "key", 1),
                                     Ev("wallet.load(data)", data, 1),
                                     Ev("wallet.load", qr_format, 1)>>)
       \/ /\ candidate' = "new"
          /\ Return(<<Ev("Wallet", "key", 1), Ev("wallet.load", "raise", 0)>>
                    \o InvalidWallet)
    /\ UNCHANGED <<ctx_wallet, data, qr_format, psbt_filename, signer,
                   n_outputs, shown, frame>>

\* self.display_wallet(wallet, include_qr=False)
load_wallet_display ==
    /\ handler = "wallet" /\ pc = "display_wallet"
    /\ \/ Goto("confirm_load", <<Ev("clear", "", 0), Ev("display_wallet", "ok", 1)>>)
       \/ Return(<<Ev("clear", "", 0), Ev("display_wallet", "raise", 0)>>
                 \o InvalidWallet)
    /\ UNCHANGED <<ctx_wallet, localVars, frame>>

\* a mutant of load_wallet_confirm: the wallet is replaced whatever the answer
load_wallet_confirm_unasked ==
    /\ handler = "wallet" /\ pc = "confirm_load"
    /\ ctx_wallet' = [id |-> ctx_wallet.id + 1, loaded |-> TRUE,
                      multisig |-> ctx_wallet.multisig]
    /\ \/ Goto("loaded", <<Ev("prompt", "Load?", 1), Ev("ctx.wallet =", "wallet", 1)>>)
       \/ Return(<<Ev("prompt", "Load?", 0)>>)
    /\ UNCHANGED <<localVars, frame>>

\* if self.prompt(t("Load?"), ...): self.ctx.wallet = wallet
load_wallet_confirm ==
    /\ handler = "wallet" /\ pc = "confirm_load"
    /\ \/ /\ ctx_wallet' = [id |-> ctx_wallet.id + 1, loaded |-> TRUE,
                            multisig |-> ctx_wallet.multisig]
          /\ Goto("loaded", <<Ev("prompt", "Load?", 1), Ev("ctx.wallet =", "wallet", 1)>>)
       \/ /\ ctx_wallet' = ctx_wallet
          /\ Return(<<Ev("prompt", "Load?", 0)>>)
    /\ UNCHANGED <<localVars, frame>>

\* the rest of the try block, after the assignment
load_wallet_loaded ==
    /\ handler = "wallet" /\ pc = "loaded"
    /\ LET logged == <<Ev("descriptor.to_string", "ok", 1), Ev("log.debug", "", 0),
                       Ev("flash_text", "Wallet output descriptor loaded!", 0)>>
           warned == <<Ev("clear", "", 0),
                       Ev("draw_centered_text", "Incomplete output descriptor", 0),
                       Ev("wait_for_button", "Incomplete output descriptor", 0)>>
       IN  \/ Return(logged)
           \/ Return(logged \o warned)
           \/ Return(<<Ev("descriptor.to_string", "raise", 0)>> \o InvalidWallet)
    /\ UNCHANGED <<ctx_wallet, localVars, frame>>

(* ---- the Home menu, its submenus and the handlers run by other pages *)

\* what a handler of another page may return
Signals == {MENU_CONTINUE, MENU_EXIT}

\* no local of a handler is bound
Unbound ==
    /\ data' = "unbound" /\ qr_format' = "unbound" /\ psbt_filename' = "unbound"
    /\ signer' = "unbound" /\ n_outputs' = 0 /\ shown' = 0
    /\ candidate' = "unbound"

\* the entry h of the running menu is chosen; its body belongs to other pages, so
\* only its outcome is kept: one of results, or an exception of a call
Leaf(h, results) ==
    /\ pc = "idle"
    /\ handler' = h
    /\ trace' = <<Ev(h, "", 0)>>
    /\ pc' = "done"
    /\ result' \in results
    /\ UNCHANGED <<ctx_wallet, localVars, frame>>

\* Home.mnemonic: the submenu is built and its loop entered
mnemonic ==
    /\ pc = "idle" /\ menu = "Home"
    /\ menu' = "Mnemonic"
    /\ UNCHANGED <<ctx_wallet, handler, pc, trace, result, localVars,
                   displayVars, drawVars, linesVars>>

display_mnemonic_words ==
    /\ menu = "Mnemonic"
    /\ Leaf("display_mnemonic_words", {MENU_CONTINUE, "raised"})

display_standard_qr ==
    /\ menu = "Mnemonic"
    /\ Leaf("display_standard_qr", {MENU_CONTINUE, "raised"})

\* both entries, binary or not: return seed_qr_view.display_seed_qr()
display_seed_qr ==
    /\ menu = "Mnemonic"
    /\ Leaf("display_seed_qr", Signals \cup {"raised"})

stackbit ==
    /\ menu = "Mnemonic"
    /\ Leaf("stackbit", {MENU_CONTINUE, "raised"})

tiny_seed ==
    /\ menu = "Mnemonic"
    /\ Leaf("tiny_seed", {MENU_CONTINUE, "raised"})

\* lambda: MENU_EXIT, the last entry of the Mnemonic submenu
mnemonic_back ==
    /\ menu = "Mnemonic"
    /\ Leaf("Back", {MENU_EXIT})

\* submenu.run_loop() returned; return MENU_CONTINUE
mnemonic_return ==
    /\ pc = "done" /\ menu = "Mnemonic"
    /\ result \notin {MENU_CONTINUE, "raised"}
    /\ menu' = "Home"
    /\ handler' = "mnemonic"
    /\ trace' = <<Ev("run_loop", handler, IF result = MENU_EXIT THEN 1 ELSE 0)>>
    /\ pc' = "done" /\ result' = MENU_CONTINUE
    /\ UNCHANGED <<ctx_wallet, localVars, displayVars, drawVars, linesVars>>

\* return encrypt_mnemonic_menu.encrypt_menu()
encrypt_mnemonic ==
    /\ menu = "Home"
    /\ Leaf("encrypt_mnemonic", Signals \cup {"raised"})

public_key ==
    /\ menu = "Home"
    /\ Leaf("public_key", {MENU_CONTINUE, "raised"})

\* adresses.addresses_menu() is called and its value dropped: the handler
\* ends without a return statement
addresses_menu ==
    /\ menu = "Home"
    /\ Leaf("addresses_menu", {"None", "raised"})

\* Home.sign: the submenu is built and its loop entered
sign ==
    /\ pc = "idle" /\ menu = "Home"
    /\ menu' = "Sign"
    /\ UNCHANGED <<ctx_wallet, handler, pc, trace, result, localVars,
                   displayVars, drawVars, linesVars>>

\* return message_signer.sign_message()
sign_message ==
    /\ menu = "Sign"
    /\ Leaf("sign_message", Signals \cup {"raised"})

\* lambda: MENU_EXIT, the last entry of the Sign submenu
sign_back ==
    /\ menu = "Sign"
    /\ Leaf("Back", {MENU_EXIT})

\* a mutant of sign_return: the status of the loop is returned for the
\* last entry too
sign_return_status ==
    /\ pc = "done" /\ menu = "Sign"
    /\ result \notin {MENU_CONTINUE, "raised"}
    /\ menu' = "Home"
    /\ handler' = "sign"
    /\ trace' = <<Ev("run_loop", handler, IF result = MENU_EXIT THEN 1 ELSE 0)>>
    /\ pc' = "done"
    /\ result' = result
    /\ UNCHANGED <<ctx_wallet, localVars, displayVars, drawVars, linesVars>>

\* index, status = submenu.run_loop(); MENU_CONTINUE for the last entry,
\* status for any other
sign_return ==
    /\ pc = "done" /\ menu = "Sign"
    /\ result \notin {MENU_CONTINUE, "raised"}
    /\ menu' = "Home"
    /\ handler' = "sign"
    /\ trace' = <<Ev("run_loop", handler, IF result = MENU_EXIT THEN 1 ELSE 0)>>
    /\ pc' = "done"
    /\ result' = IF handler = "Back" THEN MENU_CONTINUE ELSE result
    /\ UNCHANGED <<ctx_wallet, localVars, displayVars, drawVars, linesVars>>

\* the loop of the running menu: the handler returned MENU_CONTINUE, the
\* menu is drawn again and waits for the next choice
menu_loop ==
    /\ pc = "done" /\ result = MENU_CONTINUE
    /\ handler' = "none" /\ pc' = "idle" /\ trace' = <<>> /\ result' = "none"
    /\ Unbound
    /\ UNCHANGED <<ctx_wallet, frame>>

NextHome ==
    \/ mnemonic
    \/ display_mnemonic_words
    \/ display_standard_qr
    \/ display_seed_qr
    \/ stackbit
    \/ tiny_seed
    \/ mnemonic_back
    \/ mnemonic_return
    \/ encrypt_mnemonic
    \/ public_key
    \/ addresses_menu
    \/ sign
    \/ sign_message
    \/ sign_back
    \/ sign_return
    \/ menu_loop
    \/ sign_psbt_enter
    \/ sign_psbt_proceed
    \/ capture_qr_code
    \/ load_file_has_sd_card
    \/ load_file_prompt_sd
    \/ load_file_select
    \/ load_file_prompt_load
    \/ load_file_read
    \/ sign_psbt_signer
    \/ sign_psbt_outputs
    \/ sign_psbt_message
    \/ sign_psbt_scrub_data
    \/ sign_psbt_prompt
    \/ sign_psbt_sign
    \/ sign_psbt_psbt_qr
    \/ sign_psbt_serialize
    \/ sign_psbt_scrub_signer
    \/ sign_psbt_display_qr_codes
    \/ sign_psbt_print_standard_qr
    \/ sign_psbt_save_file
    \/ wallet_enter
    \/ wallet_load_one
    \/ wallet_show
    \/ wallet_print
    \/ wallet_save
    \/ load_wallet_load
    \/ load_wallet_display
    \/ load_wallet_confirm
    \/ load_wallet_loaded

SpecHome == InitHome /\ [][NextHome]_vars

----------------------------------------------------------------------------
(* Display.flash_text, with the draw_centered_text and draw_hcentered_text *)
(* it runs.  request is the frame of the running call; trace lists the     *)
(* calls made on the native surface and on time, in the order they are     *)
(* made; lcd_call is the latest of them.                                   *)

FlashTexts == UNION {[1..n -> Chars] : n \in 0..MaxExtent}
FlashWords == {<<>>, <<"a">>, <<"a", "b">>}
FlashLists == UNION {[1..n -> FlashWords] : n \in 0..MaxLines}
Durations  == {FLASH_MSG_TIME, 1}

InitFlash ==
    /\ InitGeometry
    /\ flipped_x_coordinates = FALSE
    /\ BoardIdle
    /\ request = NoDraw /\ lcd_call = NoDraw
    /\ text = <<>> /\ max_lines = 0
    /\ lines = <<>> /\ start = 0 /\ line_count = 0 /\ emitted = <<>>
    /\ pc_lines = "idle"
    /\ HomeIdle

\* Display.clear
Clear == Ev("lcd.clear", "bg_color", 0)

\* lines = text if isinstance(text, list) else self.to_lines(text)
LinesOf(is_list, t) ==
    IF is_list
    THEN /\ lines' = t
         /\ UNCHANGED <<text, max_lines, start, line_count, emitted, pc_lines>>
    ELSE /\ text' = t /\ max_lines' = 0
         /\ lines' = <<>> /\ start' = 0 /\ line_count' = 0 /\ emitted' = <<>>
         /\ pc_lines' = "entry"

\* to_lines is not running: it was not called, or it has returned
LinesReady == pc_lines \in {"idle", "done"}

\* flash_text is called: the first clear
flash_text ==
    /\ pc = "idle" /\ request = NoDraw
    /\ \E is_list \in BOOLEAN, duration \in Durations :
        \E t \in (IF is_list THEN FlashLists ELSE FlashTexts) :
            request' = [op |-> "flash_text", text |-> t, is_list |-> is_list,
                        duration |-> duration]
    /\ trace' = <<Clear>> /\ lcd_call' = Clear
    /\ pc' = "draw_centered_text"
    /\ UNCHANGED <<displayVars, linesVars, ctx_wallet, handler, result, localVars, menu>>

\* draw_centered_text computes the lines
draw_centered_text ==
    /\ pc = "draw_centered_text"
    /\ LinesOf(request.is_list, request.text)
    /\ pc' = "offset_y"
    /\ UNCHANGED <<displayVars, drawVars, ctx_wallet, handler, trace, result, localVars, menu>>

\* offset_y of draw_centered_text
CenteredOffsetY(n) == Max(0, (Height - n * FONT_HEIGHT) \div 2)

\* draw_centered_text calls draw_hcentered_text, which computes the lines
\* again
draw_hcentered_text ==
    /\ pc = "offset_y" /\ LinesReady
    /\ request' = [op |-> "draw_hcentered_text", text |-> request.text,
                   is_list |-> request.is_list, duration |-> request.duration,
                   offset_y |-> CenteredOffsetY(Len(lines))]
    /\ LinesOf(request.is_list, request.text)
    /\ pc' = "draw_lines"
    /\ UNCHANGED <<displayVars, lcd_call, ctx_wallet, handler, trace, result, localVars, menu>>

\* the lcd.draw_string calls of the loop of draw_hcentered_text: one for
\* each line that is not empty
DrawCalls(ls, offset_y) ==
    LET call(i) ==
            LET offset_x == Max(0, (Width - FONT_WIDTH * Len(ls[i])) \div 2)
            IN  Ev("lcd.draw_string", ls[i],
                   <<StringX(flipped_x_coordinates, Width, offset_x, ls[i]),
                     offset_y + (i - 1) * FONT_HEIGHT>>)
    IN  SelectSeq([i \in 1..Len(ls) |-> call(i)], LAMBDA e : Len(e.arg) > 0)

draw_hcentered_text_lines ==
    /\ pc = "draw_lines" /\ LinesReady
    /\ LET calls == DrawCalls(lines, request.offset_y)
       IN  /\ trace' = trace \o calls
           /\ lcd_call' = IF calls = <<>> THEN lcd_call ELSE Last(calls)
    /\ pc' = "sleep"
    /\ UNCHANGED <<displayVars, request, linesVars, ctx_wallet, handler, result, localVars, menu>>

\* time.sleep_ms(duration)
flash_text_sleep ==
    /\ pc = "sleep"
    /\ trace' = Append(trace, Ev("time.sleep_ms", "duration", request.duration))
    /\ pc' = "clear"
    /\ UNCHANGED <<displayVars, drawVars, linesVars, ctx_wallet, handler, result, localVars, menu>>

\* a mutant of flash_text_return: the message is left on the screen
flash_text_return_unclear ==
    /\ pc = "clear"
    /\ pc' = "returned"
    /\ UNCHANGED <<displayVars, drawVars, linesVars, ctx_wallet, handler, trace, result, localVars, menu>>

\* the second clear, and the return
flash_text_return ==
    /\ pc = "clear"
    /\ trace' = Append(trace, Clear) /\ lcd_call' = Clear
    /\ pc' = "returned"
    /\ UNCHANGED <<displayVars, request, linesVars, ctx_wallet, handler, result, localVars, menu>>

NextFlash ==
    \/ flash_text
    \/ draw_centered_text
    \/ to_lines_quick
    \/ to_lines_begin
    \/ to_lines_fit
    \/ to_lines_wrap
    \/ to_lines_return
    \/ draw_hcentered_text
    \/ draw_hcentered_text_lines
    \/ flash_text_sleep
    \/ flash_text_return

SpecFlash == InitFlash /\ [][NextFlash]_vars

----------------------------------------------------------------------------
(* Reading the trace *)

Pos(op) == {i \in DOMAIN trace : trace[i].op = op}
Happened(e) == \E i \in DOMAIN trace : trace[i] = e

SignYes == Ev("prompt", "Sign?", 1)
SignNo  == Ev("prompt", "Sign?", 0)

\* the export steps of sign_psbt
ExportPos ==
    Pos("display_qr_codes") \cup Pos("print_qr_prompt") \cup Pos("print_qr")
    \cup Pos("save_file")

\* C2: signer.sign() is called only after each of the summaries returned
\* by signer.outputs() was drawn and acknowledged by one button event, in
\* order, and after "Sign?" was answered yes; when "Sign?" is declined the
\* handler has returned MENU_CONTINUE with no sign() and no export.
C2_SignGate ==
    handler = "sign_psbt" =>
        /\ \A i \in Pos("signer.sign") :
            \E p \in 1..(i - 1) :
                /\ trace[p] = SignYes
                /\ Happened(Ev("signer.outputs", "ok", n_outputs))
                /\ Cardinality({w \in 1..(p - 1) :
                       trace[w].op = "wait_for_button"}) = n_outputs
                /\ \A k \in 1..n_outputs :
                    \E d \in 1..(p - 1), w \in 1..(p - 1) :
                        /\ d < w
                        /\ trace[d] = Ev("draw_centered_text", "message", k)
                        /\ trace[w] = Ev("wait_for_button", "message", k)
                        /\ k > 1 => \E v \in 1..(d - 1) :
                               trace[v] = Ev("wait_for_button", "message", k - 1)
        /\ Happened(SignNo) =>
            /\ Pos("signer.sign") = {} /\ ExportPos = {}
            /\ pc = "done" /\ result = MENU_CONTINUE

\* sign() was called after two summaries were shown
C2_Witness ==
    /\ handler = "sign_psbt"
    /\ Happened(Ev("signer.sign", "ok", 1))
    /\ n_outputs = 2 /\ shown = 2

\* neither source gave data: storage absent, the user declined, no file
\* was chosen, or the read raised OSError
StorageFailed ==
    \/ \E i \in 2..Len(trace) :
         /\ trace[i - 1] = Ev("capture_qr_code", "None", 0)
         /\ trace[i] = Ev("has_sd_card", "False", 0)
    \/ Happened(Ev("prompt", "Load from SD card?", 0))
    \/ Happened(Ev("select_file", "", 0))
    \/ \E i \in 2..Len(trace) :
         /\ trace[i - 1].op = "display_file"
         /\ trace[i] = Ev("prompt", "Load?", 0)
    \/ Happened(Ev("read_binary", "OSError", 0))

AcquisitionFailed ==
    Happened(Ev("capture_qr_code", "None", 0)) /\ StorageFailed

\* C3: when the capture and the storage both give no data, sign_psbt and
\* _load_wallet flash their failure notice and return MENU_CONTINUE; no
\* PSBTSigner and no Wallet is constructed, and no exception leaves.
C3_AcquisitionFailure ==
    AcquisitionFailed =>
        /\ pc = "done" /\ result = MENU_CONTINUE
        /\ Last(trace) = Ev("flash_text", FailureNotice, 0)
        /\ Pos("PSBTSigner") = {} /\ signer = "unbound"
        /\ Pos("Wallet") = {} /\ Pos("wallet.load") = {} /\ candidate = "unbound"
        /\ Pos("ctx.wallet =") = {}

\* sign_psbt after a read that raised OSError
C3_Witness ==
    /\ handler = "sign_psbt" /\ pc = "done"
    /\ Happened(Ev("read_binary", "OSError", 0))
    /\ Last(trace) = Ev("flash_text", "Failed to load PSBT", 0)

Unvalidated == ~ctx_wallet.loaded /\ ctx_wallet.multisig

AcquisitionPos ==
    Pos("capture_qr_code") \cup Pos("has_sd_card") \cup Pos("select_file")
    \cup Pos("read_binary")

\* C4: with a multisig wallet and no descriptor loaded, sign_psbt starts
\* the acquisition only after the warning was drawn and "Proceed?" was
\* answered yes; when it is declined the handler has returned
\* MENU_CONTINUE with no acquisition and no signer.
C4_ValidationGate ==
    (handler = "sign_psbt" /\ Unvalidated) =>
        /\ \A i \in AcquisitionPos \cup Pos("PSBTSigner") :
            /\ i > 2
            /\ trace[1] = Ev("draw_centered_text", "Warning", 0)
            /\ trace[2] = Ev("prompt", "Proceed?", 1)
        /\ Happened(Ev("prompt", "Proceed?", 0)) =>
            /\ pc = "done" /\ result = MENU_CONTINUE
            /\ AcquisitionPos = {} /\ Pos("PSBTSigner") = {}
            /\ signer = "unbound" /\ data = "unbound"

\* the capture was started after the user chose to proceed
C4_Witness ==
    /\ handler = "sign_psbt" /\ Unvalidated
    /\ Happened(Ev("prompt", "Proceed?", 1))
    /\ Pos("capture_qr_code") # {}

\* the events of a collaborator that raised
Raises == {i \in DOMAIN trace : trace[i].arg \in {"raise", "OSError"}}

\* C6: in sign_psbt every exception of a collaborator is caught inside the
\* handler, logged, shown as an error that waits for a button, and the
\* handler returns MENU_CONTINUE.
C6_ExceptionsContained ==
    handler = "sign_psbt" =>
        /\ result # "raised"
        /\ \A i \in Raises :
            /\ i + 4 <= Len(trace)
            /\ trace[i + 1].op = "log.exception"
            /\ trace[i + 3] = Ev("draw_centered_text", "Error", 0)
            /\ trace[i + 4] = Ev("wait_for_button", "Error", 0)
        /\ (pc = "done" /\ Raises # {}) => result = MENU_CONTINUE

\* C7: in sign_psbt (a) "Sign?" is asked right after data and outputs were
\* deleted and a collection forced, and (b) every export step comes after
\* psbt_qr() and serialize() returned, the signer was deleted and a
\* collection was forced, in this order.
C7_ScrubOrder ==
    handler = "sign_psbt" =>
        /\ \A i \in Pos("prompt") :
            trace[i].arg = "Sign?" =>
                /\ i > 2
                /\ trace[i - 2] = Ev("del", "data, outputs", 0)
                /\ trace[i - 1] = Ev("gc.collect", "", 0)
                /\ data = "deleted"
        /\ \A i \in ExportPos :
            \E q \in 1..(i - 1), z \in 1..(i - 1), d \in 1..(i - 2) :
                /\ q < z /\ z < d
                /\ trace[q] = Ev("signer.psbt_qr", "ok", 1)
                /\ trace[z] = Ev("signer.psbt.serialize", "ok", 1)
                /\ trace[d] = Ev("del", "signer", 0)
                /\ trace[d + 1] = Ev("gc.collect", "", 0)
                /\ signer = "deleted"

\* the signed PSBT was shown, printed and saved
C7_Witness ==
    /\ handler = "sign_psbt" /\ pc = "done"
    /\ Happened(Ev("display_qr_codes", "ok", 1))
    /\ Happened(Ev("print_qr", "ok", 1))
    /\ Happened(Ev("save_file", "ok", 1))

\* C8: in sign_psbt a failure of one export does not keep the others from
\* being attempted: after display_qr_codes raised the print prompt is
\* still shown, and after printing raised the save is still attempted.
C8_ExportsIndependent ==
    (handler = "sign_psbt" /\ pc = "done") =>
        /\ Happened(Ev("display_qr_codes", "raise", 0)) =>
               /\ Pos("print_qr_prompt") # {}
               /\ Pos("has_sd_card") # {}
        /\ Happened(Ev("print_qr", "raise", 0)) =>
               \E i \in Pos("has_sd_card") : \E j \in Pos("print_qr") : j < i

----------------------------------------------------------------------------
\* C9: in mirrored mode fill_rectangle(x, y, w, h) issues the native call
\* that fill_rectangle(width() - x - w, y, w, h) issues in plain mode; the
\* reflection applied twice gives x back and y, w, h, color and radius are
\* passed through unchanged in both modes.
C9_FillRectangleMirror ==
    request.op = "fill_rectangle" =>
        /\ flipped_x_coordinates =>
            /\ lcd_call = NativeFillRectangle(FALSE, Width,
                   Reflect(request.x, request.width), request.y, request.width,
                   request.height, request.color, request.radius)
            /\ lcd_call.x = Width - request.x - request.width
            /\ Reflect(lcd_call.x, request.width) = request.x
        /\ ~flipped_x_coordinates => lcd_call.x = request.x
        /\ lcd_call.op = "lcd.fill_rectangle"
        /\ lcd_call.y = request.y /\ lcd_call.width = request.width
        /\ lcd_call.height = request.height /\ lcd_call.color = request.color
        /\ lcd_call.radius = request.radius

\* a mirrored rectangle that is moved by the reflection
C9_Witness ==
    /\ request.op = "fill_rectangle" /\ flipped_x_coordinates
    /\ request.x > 0 /\ request.width > 0 /\ request.radius = 1
    /\ lcd_call.x = Width - request.x - request.width
    /\ lcd_call.x # request.x

\* the extent the specification names for each primitive
Extent(req) ==
    CASE req.op = "outline"        -> req.width
      [] req.op = "fill_rectangle" -> req.width
      [] req.op = "draw_string"    -> Len(req.text) * FONT_WIDTH
      [] req.op = "draw_circle"    -> 0

Primitives == {"outline", "fill_rectangle", "draw_string", "draw_circle"}

\* C10 as stated: in mirrored mode every primitive hands
\* x' = width() - x - extent to the native surface, the outline included.
C10_UniformMirror ==
    request.op \in Primitives =>
        lcd_call.x = IF flipped_x_coordinates
                     THEN Reflect(request.x, Extent(request))
                     ELSE request.x

\* C10 amended: in mirrored mode the filled rectangle, the string and the
\* circle hand x' = width() - x - extent to the native surface, and the
\* outline hands x' = width() - x - 1 - width; in plain mode every
\* primitive passes x through unchanged.
C10_Mirror ==
    request.op \in Primitives =>
        lcd_call.x = IF flipped_x_coordinates
                     THEN IF request.op = "outline"
                          THEN Reflect(request.x, Extent(request)) - 1
                          ELSE Reflect(request.x, Extent(request))
                     ELSE request.x

\* a mirrored outline, one pixel left of the reflection of its corner
C10_Witness ==
    /\ request.op = "outline" /\ flipped_x_coordinates
    /\ request.x > 0 /\ request.width > 0
    /\ lcd_call.x = Width - request.x - request.width - 1

----------------------------------------------------------------------------
\* C1 as stated: every returned line has at most Columns characters,
\* whatever the text, the column budget and max_lines.
C1_LinesFitAnyColumns ==
    pc_lines = "done" => \A i \in DOMAIN lines : Len(lines[i]) <= Columns

\* C1 amended: with a column budget of at least 3 (room for the ellipsis),
\* every returned line has at most Columns characters, the truncated last
\* line included.
C1_LinesFit ==
    (pc_lines = "done" /\ Columns >= 3)
        => \A i \in DOMAIN lines : Len(lines[i]) <= Columns

\* a truncated result whose last line, cut and marked, fills the whole budget
C1_Witness ==
    /\ Truncated /\ Columns > 3
    /\ Len(emitted) = Columns
    /\ Len(Last(lines)) = Columns

\* C5 as stated: on truncation the last line is exactly the first
\* Columns - 3 characters of the emitted line followed by "..." (stated
\* here for the budgets of at least 3, which have room for the marker).
C5_EllipsisExactPrefix ==
    (Truncated /\ Columns >= 3) =>
        /\ Len(emitted) >= Columns - 3
        /\ Last(lines) = SubSeq(emitted, 1, Columns - 3) \o Ellipsis
        /\ Len(Last(lines)) = Columns

\* C5 amended: with a column budget of at least 3, on truncation the last
\* line is the first min(Columns - 3, len) characters of the emitted line
\* followed by "...", and the lines before it are untouched.
C5_Ellipsis ==
    (Truncated /\ Columns >= 3) =>
        LET keep == Min(Columns - 3, Len(emitted))
        IN  /\ Last(lines) = SubSeq(emitted, 1, keep) \o Ellipsis
            /\ Len(Last(lines)) = keep + 3
            /\ Len(lines) = line_count

\* a truncation of a line shorter than Columns - 3: the prefix is the
\* whole line
C5_Witness ==
    /\ Truncated /\ Columns >= 3
    /\ emitted # <<>> /\ Len(emitted) < Columns - 3
    /\ Last(lines) = emitted \o Ellipsis

----------------------------------------------------------------------------
\* the reflection of one line endpoint named by the specification
LineReflect(x) == IF x < Width THEN Width - (x + 1) ELSE Width - x

\* C11: in the mirrored mode the segment handed to the native surface joins
\* (r(x_0), y_0) and (r(x_1), y_1): every endpoint keeps its own y, so the
\* drawn segment is the mirror image of the requested one, diagonals included.
C11_LineMirror ==
    (request.op = "draw_line" /\ flipped_x_coordinates) =>
        {<<lcd_call.x_start, lcd_call.y_0>>, <<lcd_call.x_end, lcd_call.y_1>>}
            = {<<LineReflect(request.x_0), request.y_0>>,
               <<LineReflect(request.x_1), request.y_1>>}

----------------------------------------------------------------------------
\* the text has at most Columns characters and no line break
FitsOneLine == Len(text) <= Columns /\ Find(text, NEWLINE, 0) = -1

\* C12: a text of at most Columns characters without a line break comes back
\* as exactly [text], whatever max_lines is (the empty text as one empty
\* line); and no step of to_lines issues a drawing call or changes the
\* orientation, the mirroring, the geometry or the backlight of the Display.
C12_QuickReturnPure ==
    /\ []((pc_lines = "done" /\ FitsOneLine) => lines = <<text>>)
    /\ [](request = NoDraw /\ lcd_call = NoDraw)
    /\ [][UNCHANGED <<displayVars, drawVars>>]_vars

\* a text that fills the budget exactly and ends with a space, returned
\* whole under a line cap of one
C12_Witness ==
    /\ pc_lines = "done" /\ FitsOneLine
    /\ Columns > 1 /\ Len(text) = Columns /\ Last(text) = SPACE
    /\ max_lines = 1
    /\ lines = <<text>>

----------------------------------------------------------------------------
Blank(ch) == ch = SPACE \/ ch = NEWLINE

\* an iteration is about to run on a text that has no space and no line
\* break in its next Columns characters and goes on beyond them
HardBreak ==
    /\ pc_lines = "loop" /\ LoopCondition
    /\ start + Columns < Len(text)
    /\ \A i \in start..(start + Columns - 1) : ~Blank(At(text, i))

----------------------------------------------------------------------------
\* C14: the result has at most max_lines lines (at most TOTAL_LINES when
\* max_lines is omitted); every iteration of the loop adds one line and
\* increments the line count, which never passes the cap, and neither
\* text[end] nor lines[-1] is read out of range: the loop runs at most
\* max_lines times and to_lines returns.
C14_LineBudget ==
    /\ [](pc_lines = "done" =>
            Len(lines) <= (IF max_lines = 0 THEN TOTAL_LINES ELSE max_lines))
    /\ [](pc_lines = "loop" => (Len(lines) = line_count /\ line_count <= max_lines))
    /\ []((pc_lines = "loop" /\ LoopCondition /\ start + Columns < NextBreak)
            => start + Columns < Len(text))
    /\ []((pc_lines = "loop" /\ line_count = max_lines) => lines # <<>>)
    /\ [][(pc_lines = "loop" /\ pc_lines' = "loop") =>
            (line_count' = line_count + 1 /\ Len(lines') = Len(lines) + 1)]_vars

\* a text of more than TOTAL_LINES lines, max_lines omitted: the result
\* stops at TOTAL_LINES lines with text left over
C14_Witness ==
    /\ Truncated
    /\ max_lines = TOTAL_LINES /\ Len(lines) = TOTAL_LINES
    /\ Len(text) > TOTAL_LINES

----------------------------------------------------------------------------
\* the capture returned data under the format tag fmt
Captured(fmt) == Happened(Ev("capture_qr_code", fmt, 1))

\* the capture returned no data
CapturedNone == Happened(Ev("capture_qr_code", "None", 0))

\* _load_file was entered: its card test follows the capture at once
LoadFileEntered ==
    \E i \in Pos("has_sd_card") : i > 1 /\ trace[i - 1].op = "capture_qr_code"

\* a step of _load_file
LoadFilePos ==
    {i \in DOMAIN trace :
        \/ trace[i].op \in {"select_file", "display_file", "read_binary"}
        \/ trace[i].op = "prompt" /\ trace[i].arg = "Load from SD card?"
        \/ trace[i].op = "has_sd_card" /\ i > 1
                /\ trace[i - 1].op = "capture_qr_code"}

\* what both handlers share in C15: the capture comes first, _load_file is
\* entered exactly when the capture returned no data, and data that was
\* captured is the data handed on
FallbackOrder ==
    /\ \A i \in LoadFilePos \cup Pos("PSBTSigner") \cup Pos("wallet.load") :
            \E j \in Pos("capture_qr_code") : j < i
    /\ CapturedNone => (LoadFileEntered \/ pc = "has_sd_card")
    /\ LoadFileEntered => CapturedNone
    /\ \A fmt \in Formats : Captured(fmt) =>
            /\ LoadFilePos = {}
            /\ pc = "acquired" => data = "qr_data"
            /\ \A i \in Pos("PSBTSigner(data)") \cup Pos("wallet.load(data)") :
                    trace[i].arg = "qr_data"

\* C15 as stated: in sign_psbt and _load_wallet the capture is attempted
\* first, the storage fallback is attempted if and only if the capture
\* returned no data, and captured data is used with its captured format
\* tag, the storage never being consulted.
C15_CapturedTagUsed ==
    /\ FallbackOrder
    /\ \A fmt \in Formats : Captured(fmt) =>
            \A i \in Pos("PSBTSigner") \cup Pos("wallet.load") :
                trace[i].k = 1 => trace[i].arg = fmt

\* C15 amended: as above, except that sign_psbt hands FORMAT_PMOFN to the
\* signer when the captured tag is FORMAT_NONE; _load_wallet hands on the
\* captured tag as it is.
C15_FallbackOrder ==
    /\ FallbackOrder
    /\ \A fmt \in Formats : Captured(fmt) =>
            /\ \A i \in Pos("PSBTSigner") : trace[i].k = 1 =>
                    trace[i].arg = (IF fmt = FORMAT_NONE THEN FORMAT_PMOFN ELSE fmt)
            /\ \A i \in Pos("wallet.load") : trace[i].k = 1 => trace[i].arg = fmt

\* a capture tagged FORMAT_NONE whose data went to the signer as FORMAT_PMOFN
C15_Witness ==
    /\ handler = "sign_psbt"
    /\ Captured(FORMAT_NONE)
    /\ Happened(Ev("PSBTSigner(data)", "qr_data", 1))
    /\ Happened(Ev("PSBTSigner", FORMAT_PMOFN, 1))
    /\ LoadFilePos = {}

----------------------------------------------------------------------------
\* the candidate wallet was loaded from the acquired data without raising
\* and then displayed
LoadedAndDisplayed ==
    /\ candidate = "loaded"
    /\ \E i \in Pos("wallet.load") : \E j \in Pos("display_wallet") :
            /\ i < j
            /\ trace[i].k = 1
            /\ trace[j] = Ev("display_wallet", "ok", 1)

\* the user declined "Load one?" or a "Load?" prompt
Declined ==
    \/ Happened(Ev("prompt", "Load one?", 0))
    \/ Happened(Ev("prompt", "Load?", 0))

\* C16: over any sequence of Home handler invocations ctx.wallet is replaced
\* only by the assignment inside _load_wallet, after the candidate wallet
\* was loaded without raising and displayed and "Load?" was answered yes;
\* an invocation in which "Load one?" or "Load?" was declined, or the
\* acquisition failed, contains no such assignment.
C16_WalletMutation ==
    /\ [][ctx_wallet' # ctx_wallet =>
            /\ handler = "wallet" /\ pc = "confirm_load"
            /\ Happened(Ev("prompt", "Load one?", 1))
            /\ LoadedAndDisplayed
            /\ trace' = trace \o <<Ev("prompt", "Load?", 1),
                                    Ev("ctx.wallet =", "wallet", 1)>>]_vars
    /\ []((Declined \/ AcquisitionFailed) => Pos("ctx.wallet =") = {})

\* the wallet was just replaced, after a load from captured data, the
\* display of the candidate and a yes to "Load?"
C16_Witness ==
    /\ handler = "wallet" /\ pc = "loaded"
    /\ LoadedAndDisplayed
    /\ Last(trace) = Ev("ctx.wallet =", "wallet", 1)
    /\ trace[Len(trace) - 1] = Ev("prompt", "Load?", 1)
    /\ ctx_wallet.loaded /\ ctx_wallet.id = 1

----------------------------------------------------------------------------
\* C17: every handler of the Home menu and of its Mnemonic and Sign
\* submenus that terminates normally has returned MENU_CONTINUE or
\* MENU_EXIT; none returns without a signal.
C17_HandlersReturnSignal ==
    (pc = "done" /\ result # "raised") => result \in Signals

----------------------------------------------------------------------------
\* C18: after any sequence of to_landscape and to_portrait calls,
\* width() x height() is the native width x height; width() and height()
\* are the native ones in portrait and swapped in landscape; each of the
\* two calls issues the rotation command of the orientation it sets; and
\* usable_width() is width() - 2 * DEFAULT_PADDING.
C18_Geometry ==
    /\ Width * Height = lcd_width * lcd_height
    /\ portrait => (Width = lcd_width /\ Height = lcd_height)
    /\ ~portrait => (Width = lcd_height /\ Height = lcd_width)
    /\ request.op = "to_landscape" =>
            (~portrait /\ lcd_call = [op |-> "lcd.rotation", dir |-> LANDSCAPE])
    /\ request.op = "to_portrait" =>
            (portrait /\ lcd_call = [op |-> "lcd.rotation", dir |-> PORTRAIT])
    /\ PORTRAIT # LANDSCAPE
    /\ UsableWidth = Width - 2 * DEFAULT_PADDING

\* to_landscape on a screen that is not square: the extents are swapped
C18_Witness ==
    /\ request.op = "to_landscape"
    /\ lcd_width # lcd_height
    /\ Width = lcd_height /\ Height = lcd_width
    /\ lcd_call.dir = LANDSCAPE

----------------------------------------------------------------------------
\* C19: on every board with a BACKLIGHT pin and for every brightness level
\* in 0..5, gpio_backlight_ctrl completes by applying the duty
\* (5 - level) * 20, which is within 0..100 and is never 100, the duty
\* that turns the backlight off.
C19_PwmDuty ==
    request.op = "gpio_backlight_ctrl" =>
        /\ lcd_call.op = "PWM.duty"
        /\ lcd_call.duty = (5 - request.brightness) * 20
        /\ lcd_call.duty \in 0..99

----------------------------------------------------------------------------
\* the lookup the specification gives for the power IC
PmuLookup(level) ==
    CASE level = 0 -> 1
      [] level = 1 -> 2
      [] level = 2 -> 3
      [] level = 3 -> 3
      [] level = 4 -> 5
      [] level = 5 -> 8

\* C20 as stated: for every level in 0..5 set_pmu_backlight passes the
\* value of the lookup {0:1, 1:2, 2:3, 3:3, 4:5, 5:8} to the power
\* manager, a value within 1..8.
C20_PmuLookupTable ==
    request.op = "set_pmu_backlight" =>
        /\ lcd_call.level = PmuLookup(request.level)
        /\ lcd_call.level \in 1..8

\* C20 amended: levels 4 and 5 are passed as 5 and 8, every other level
\* as it is ({0:0, 1:1, 2:2, 3:3, 4:5, 5:8}); the value is within 1..8
\* for the levels 1..5, and 0 for level 0.
C20_PmuLevel ==
    request.op = "set_pmu_backlight" =>
        /\ lcd_call.op = "power_manager.set_screen_brightness"
        /\ lcd_call.level = (CASE request.level = 4 -> 5
                               [] request.level = 5 -> 8
                               [] OTHER -> request.level)
        /\ request.level >= 1 => lcd_call.level \in 1..8
        /\ request.level = 0 => lcd_call.level = 0

\* level 5, the highest, reaches the power manager as 8
C20_Witness ==
    /\ request.op = "set_pmu_backlight"
    /\ request.level = 5
    /\ lcd_call.level = 8

----------------------------------------------------------------------------
\* a call of gpio_backlight_ctrl made after an earlier one
GpioAgain == request.op = "gpio_backlight_ctrl" /\ ~lcd_call.created

\* C21: a second call of gpio_backlight_ctrl (of set_pmu_backlight) with
\* the level of the call before it applies the same signal again and leaves
\* the Display as the first call left it; over any sequence of
\* gpio_backlight_ctrl calls the PWM controller is constructed once, by the
\* first call, and reused afterwards.
C21_BacklightIdempotent ==
    /\ [](pwm_made <= 1 /\ (blk_ctrl = "PWM" <=> pwm_made = 1))
    /\ [](request.op = "gpio_backlight_ctrl" =>
            (pwm_made = 1 /\ (lcd_call.created => lcd_call.before = 100)))
    /\ []((GpioAgain /\ board_type = "cube"
                /\ lcd_call.before = (5 - request.brightness) * 20)
            => (lcd_call.duty = lcd_call.before /\ blk_duty = lcd_call.before))
    /\ []((request.op = "set_pmu_backlight" /\ lcd_call.before = lcd_call.level)
            => pmu_level = lcd_call.before)
    /\ [][(request'.op \in {"gpio_backlight_ctrl", "set_pmu_backlight"}
                /\ blk_ctrl = "PWM")
            => UNCHANGED <<portrait, flipped_x_coordinates, lcd_width,
                           lcd_height, blk_ctrl, pwm_made>>]_vars

\* the cube, a second call with the same level: the duty applied is the
\* duty found, and no controller was constructed
C21_Witness ==
    /\ GpioAgain /\ board_type = "cube"
    /\ request.brightness = 3
    /\ lcd_call.before = 40 /\ lcd_call.duty = 40 /\ blk_duty = 40
    /\ pwm_made = 1

----------------------------------------------------------------------------
\* C22 as stated: qr_data_width returns width() div 6 for a width above
\* 300, width() div 5 for a width in 200..300, both ends included, and
\* width() div 4 for a width below 200.
C22_QrWidthFrom200 ==
    request.op = "qr_data_width" =>
        lcd_call.value = (IF Width > 300 THEN Width \div 6
                          ELSE IF Width >= 200 /\ Width <= 300 THEN Width \div 5
                          ELSE Width \div 4)

\* C22 amended: width() div 6 for a width above 300, width() div 5 for a
\* width in 201..300, and width() div 4 for a width of 200 or less.
C22_QrWidth ==
    request.op = "qr_data_width" =>
        /\ Width > 300 => lcd_call.value = Width \div 6
        /\ (Width >= 201 /\ Width <= 300) => lcd_call.value = Width \div 5
        /\ Width <= 200 => lcd_call.value = Width \div 4

\* a landscape screen exactly 200 wide: a quarter of the width, 50
C22_Witness ==
    /\ request.op = "qr_data_width"
    /\ ~portrait /\ Width = 200
    /\ lcd_call.value = 50

----------------------------------------------------------------------------
(* C23: flash_text makes its calls in the order clear, the draw_string     *)
(* calls of the centred text (one for each line that is not empty, in the  *)
(* order of the lines), sleep_ms of the given duration, clear; while it    *)
(* runs the calls made so far are a prefix of that order, and when it      *)
(* returns the latest call on the native surface is a clear, for a string  *)
(* and for a list of lines alike.                                          *)

\* where a call stands in the order of flash_text
FlashRank(op) ==
    IF op = "lcd.draw_string" THEN 2 ELSE IF op = "time.sleep_ms" THEN 3 ELSE 1

NonEmptyLines == SelectSeq(lines, LAMBDA l : Len(l) > 0)

C23_FlashOrder ==
    /\ pc \notin {"idle"} =>
        /\ trace # <<>> /\ trace[1].op = "lcd.clear"
        /\ \A i \in 2..Len(trace) : \A j \in i..Len(trace) :
            /\ FlashRank(trace[i].op) <= FlashRank(trace[j].op)
               \/ (j = Len(trace) /\ pc = "returned")
            /\ trace[i].op = "time.sleep_ms" => j <= i + 1
    /\ pc = "returned" =>
        /\ Len(trace) = Len(NonEmptyLines) + 3
        /\ \A i \in 1..Len(NonEmptyLines) :
            trace[i + 1].op = "lcd.draw_string" /\ trace[i + 1].arg = NonEmptyLines[i]
        /\ trace[Len(trace) - 1].op = "time.sleep_ms"
        /\ trace[Len(trace) - 1].k = request.duration
        /\ Last(trace).op = "lcd.clear"
        /\ lcd_call.op = "lcd.clear"
        /\ request.is_list => lines = request.text

C23_Witness ==
    /\ pc = "returned" /\ ~request.is_list
    /\ request.text = <<"a", "b">> /\ Columns = 1
    /\ Len(trace) = 5 /\ trace[2].arg = <<"a">> /\ trace[3].arg = <<"b">>
    /\ request.duration = FLASH_MSG_TIME /\ trace[4].k = FLASH_MSG_TIME
    /\ Last(trace) = Clear /\ lcd_call = Clear

----------------------------------------------------------------------------
\* the handler showed the "Invalid wallet" notice of its except clause
InvalidWalletShown ==
    \E i \in DOMAIN trace :
        trace[i].op = "draw_centered_text" /\ trace[i].arg = "Invalid wallet"

\* C24: when _load_wallet ends by showing "Invalid wallet", whatever call
\* of the try block raised, ctx.wallet has not been assigned by this run of
\* the handler: it is the wallet that was active before.
C24_ErrorAtomicity ==
    (handler = "wallet" /\ pc = "done" /\ InvalidWalletShown)
        => Pos("ctx.wallet =") = {}

----------------------------------------------------------------------------
\* "".join(ls)
RECURSIVE Concat(_)
Concat(ls) == IF ls = <<>> THEN <<>> ELSE Head(ls) \o Concat(Tail(ls))

\* s with its spaces and line breaks deleted
Solid(s) == SelectSeq(s, LAMBDA ch : ~Blank(ch))

----------------------------------------------------------------------------
\* the steps of _load_file that lead to the read, in their order
LoadFileGate ==
    <<Ev("has_sd_card", "True", 1), Ev("prompt", "Load from SD card?", 1),
      Ev("select_file", "name", 1), Ev("display_file", "name", 1),
      Ev("prompt", "Load?", 1)>>

\* a step of _load_file that closes the gate: no card, a declined prompt
\* or no file chosen
LoadFileRefused ==
    \E i \in LoadFilePos \cup Pos("prompt") :
        /\ i > 1
        /\ \/ trace[i] = Ev("has_sd_card", "False", 0)
                /\ trace[i - 1].op = "capture_qr_code"
           \/ trace[i] = Ev("prompt", "Load from SD card?", 0)
           \/ trace[i] = Ev("select_file", "", 0)
           \/ trace[i] = Ev("prompt", "Load?", 0) /\ trace[i - 1].op = "display_file"

\* C26: read_binary is called only after the card was found, "Load from SD
\* card?" was accepted, the chooser returned a file name and "Load?" was
\* accepted, in this order; when one of these fails _load_file has read
\* nothing and its caller holds no data; and data read from a file comes
\* with the name of that file.
C26_LoadFileGate ==
    /\ \A i \in Pos("read_binary") :
        /\ i > Len(LoadFileGate)
        /\ SubSeq(trace, i - Len(LoadFileGate), i - 1) = LoadFileGate
    /\ LoadFileRefused =>
        /\ Pos("read_binary") = {}
        /\ data = "None"
        /\ pc = "done" /\ result = MENU_CONTINUE
    /\ data = "file_data" =>
        /\ Happened(Ev("read_binary", "name", 1))
        /\ handler = "sign_psbt" => psbt_filename = "name"

\* a file was read after both prompts were accepted
C26_Witness ==
    /\ handler = "sign_psbt" /\ pc = "acquired"
    /\ data = "file_data" /\ psbt_filename = "name"
    /\ Last(trace) = Ev("read_binary", "name", 1)
    /\ SubSeq(trace, Len(trace) - 5, Len(trace) - 1) = LoadFileGate

----------------------------------------------------------------------------
\* the loop of a submenu was ended by its Back entry
BackUnwound == trace = <<Ev("run_loop", "Back", 1)>>

\* C27: in the Mnemonic and Sign submenus the Back entry returns MENU_EXIT
\* and changes nothing else; the step that follows it is the return of the
\* enclosing Home handler (mnemonic, sign) with MENU_CONTINUE, back in the
\* Home menu, whose loop then runs on: a Home handler that returns anything
\* but MENU_CONTINUE was not unwound by Back.
C27_BackUnwindsOne ==
    /\ [][(pc = "idle" /\ handler' = "Back") =>
            /\ menu \in {"Mnemonic", "Sign"}
            /\ pc' = "done" /\ result' = MENU_EXIT
            /\ UNCHANGED <<ctx_wallet, localVars, frame>>]_vars
    /\ [][(pc = "done" /\ handler = "Back") =>
            /\ handler' = (IF menu = "Mnemonic" THEN "mnemonic" ELSE "sign")
            /\ menu' = "Home"
            /\ pc' = "done" /\ result' = MENU_CONTINUE
            /\ BackUnwound'
            /\ UNCHANGED <<ctx_wallet, localVars, displayVars, drawVars, linesVars>>]_vars
    /\ [](BackUnwound =>
            /\ menu = "Home" /\ handler \in {"mnemonic", "sign"}
            /\ pc = "done" /\ result = MENU_CONTINUE)
    /\ []((menu = "Home" /\ pc = "done" /\ result # MENU_CONTINUE) => ~BackUnwound)
    /\ [][BackUnwound =>
            (menu' = "Home" /\ pc' = "idle" /\ handler' = "none"
                /\ ctx_wallet' = ctx_wallet)]_vars

\* Back was chosen in the Sign submenu and Home.sign returned MENU_CONTINUE
C27_Witness ==
    /\ BackUnwound /\ handler = "sign" /\ menu = "Home"
    /\ pc = "done" /\ result = MENU_CONTINUE

====
